---------------------------- MODULE Spec2Model ----------------------------
(***************************************************************************)
(* Model of the native backend commands of the desktop shell               *)
(* (apps/desktop/src-tauri/src/main.rs): system font discovery and         *)
(* normalisation, PNG listing, text and base64 file transfer and the       *)
(* pipeline runner.                                                        *)
(*                                                                         *)
(* A string is a sequence of character codes (Unicode scalar values), a    *)
(* byte string a sequence of 0..255.  Rust orders String by its UTF-8      *)
(* bytes, which is the order of the code-point sequences used here.        *)
(***************************************************************************)
EXTENDS Integers, Sequences, FiniteSets, TLC

VARIABLES
    target,     \* the build's target_os: exactly one cfg branch is compiled in
    pc,         \* "idle": the front end may invoke; "done": a result is pending
    req,        \* the invocation in progress (command and arguments)
    res,        \* its result as returned over the bridge
    fsFiles,    \* the regular files: absolute path -> bytes
    fsDirs,     \* the absolute paths that are directories
    fsDenied,   \* the absolute paths the OS refuses access to (EACCES)
    child,      \* how the child process a command spawns behaves right now
    spawns,     \* child-process spawn attempts made so far
    calls       \* log of completed list_system_fonts calls

vars == <<target, pc, req, res, fsFiles, fsDirs, fsDenied, child, spawns, calls>>

----------------------------------------------------------------------------
(* Bounds of the model.                                                    *)

\* longest input list fed to normalize_font_list
MaxList == 3

----------------------------------------------------------------------------
(* Strings.                                                                *)

\* char::is_whitespace, the characters str::trim strips (White_Space)
WhiteSpace == {9, 10, 11, 12, 13, 32, 133, 160, 5760, 8232, 8233, 8239, 8287, 12288}
                 \cup (8192..8202)

RECURSIVE TrimStart(_)
TrimStart(s) ==
    IF s # <<>> /\ Head(s) \in WhiteSpace THEN TrimStart(Tail(s)) ELSE s

RECURSIVE TrimEnd(_)
TrimEnd(s) ==
    IF s # <<>> /\ s[Len(s)] \in WhiteSpace
    THEN TrimEnd(SubSeq(s, 1, Len(s) - 1))
    ELSE s

\* str::trim
Trim(s) == TrimEnd(TrimStart(s))

\* Ord for String: lexicographic on the code sequence, a proper prefix first
StrLess(a, b) ==
    \E k \in 1..(Len(a) + 1) :
        /\ \A i \in 1..(k - 1) : i <= Len(b) /\ a[i] = b[i]
        /\ \/ k = Len(a) + 1 /\ k <= Len(b)
           \/ k <= Len(a) /\ k <= Len(b) /\ a[k] < b[k]

\* BTreeSet<String>::into_iter().collect(): the set's elements, ascending
RECURSIVE BTreeSetToVec(_)
BTreeSetToVec(S) ==
    IF S = {} THEN <<>>
    ELSE LET m == CHOOSE x \in S : \A y \in S : y = x \/ StrLess(x, y)
         IN  <<m>> \o BTreeSetToVec(S \ {m})

Range(s) == {s[i] : i \in DOMAIN s}

\* all sequences over S of length at most n
SeqUpTo(S, n) == UNION {[1..k -> S] : k \in 0..n}

----------------------------------------------------------------------------
(* Font lists.                                                             *)

fallback_font_list ==
    << <<83,70,32,80,114,111>>,                                   \* SF Pro
       <<83,70,32,80,114,111,32,68,105,115,112,108,97,121>>,      \* SF Pro Display
       <<83,70,32,80,114,111,32,84,101,120,116>>,                 \* SF Pro Text
       <<65,112,112,108,101,32,83,68,32,71,111,116,104,105,99,32,78,101,111>>,
                                                                  \* Apple SD Gothic Neo
       <<72,101,108,118,101,116,105,99,97,32,78,101,117,101>>,    \* Helvetica Neue
       <<65,114,105,97,108>>,                                     \* Arial
       <<78,111,116,111,32,83,97,110,115>>,                       \* Noto Sans
       <<82,111,98,111,116,111>>,                                 \* Roboto
       <<73,110,116,101,114>> >>                                  \* Inter

\* mutant: the set is filled with the untrimmed strings
normalize_font_list_untrimmed(fonts) ==
    LET unique == {fonts[i] : i \in {j \in DOMAIN fonts : Trim(fonts[j]) # <<>>}}
    IN  IF unique = {} THEN fallback_font_list ELSE BTreeSetToVec(unique)

normalize_font_list(fonts) ==
    LET unique == {Trim(fonts[i]) : i \in DOMAIN fonts} \ {<<>>}
    IN  IF unique = {} THEN fallback_font_list ELSE BTreeSetToVec(unique)

----------------------------------------------------------------------------
(* Results and requests.                                                   *)

NoReq == [cmd |-> "none"]
NoRes == [kind |-> "none"]
Ok(v) == [kind |-> "Ok", val |-> v]

\* an error string: a literal prefix, the path and the OS error text it was
\* formatted with (format!("failed to read {}: {}", path, error)), or the text
\* of a child's standard error
Message(lit, hasPath, path, os, text) ==
    [lit |-> lit, hasPath |-> hasPath, path |-> path, os |-> os, text |-> text]
Err(m) == [kind |-> "Err", msg |-> m]

\* file and directory names, as strings: "r", "d", "f", "g", "x", "h"
Name_r == <<114>>
Name_d == <<100>>
Name_f == <<102>>
Name_g == <<103>>
Name_x == <<120>>
Name_h == <<104>>

\* std::process::Command::output(): the spawn fails with an OS error, or the
\* child runs to its end with an exit status and its captured output
NoChild == [kind |-> "none"]
SpawnError(os) == [kind |-> "spawn_error", os |-> os]
Exited(success, stdout, stderr) ==
    [kind |-> "exited", success |-> success, stdout |-> stdout, stderr |-> stderr]

----------------------------------------------------------------------------
(* normalize_font_list as a function of its input (specification SpecNorm). *)

\* the input strings: "", " ", "A", "a", " A", "A ", " a", "Aa", "aA", " A ",
\* "A A"
FontStrings ==
    { <<>>, <<32>>, <<65>>, <<97>>, <<32, 65>>, <<65, 32>>, <<32, 97>>,
      <<65, 97>>, <<97, 65>>, <<32, 65, 32>>, <<65, 32, 65>> }
FontLists == SeqUpTo(FontStrings, MaxList)

InitNorm ==
    /\ target = "linux"
    /\ pc = "idle"
    /\ \E fonts \in FontLists : req = [cmd |-> "normalize_font_list", fonts |-> fonts]
    /\ res = NoRes
    /\ fsFiles = <<>>
    /\ fsDirs = {}
    /\ fsDenied = {}
    /\ child = NoChild
    /\ spawns = 0
    /\ calls = <<>>

Normalize ==
    /\ req.cmd = "normalize_font_list"
    /\ pc = "idle"
    /\ res' = Ok(normalize_font_list(req.fonts))
    /\ pc' = "done"
    /\ UNCHANGED <<target, req, fsFiles, fsDirs, fsDenied, child, spawns, calls>>

\* the result is passed back in as the next input
NormalizeAgain ==
    /\ req.cmd = "normalize_font_list"
    /\ pc = "done"
    /\ req.fonts # res.val
    /\ req' = [req EXCEPT !.fonts = res.val]
    /\ res' = NoRes
    /\ pc' = "idle"
    /\ UNCHANGED <<target, fsFiles, fsDirs, fsDenied, child, spawns, calls>>

NextNorm == Normalize \/ NormalizeAgain

SpecNorm == InitNorm /\ [][NextNorm]_vars

\* strictly ascending, hence duplicate-free
StrictlySorted(list) ==
    \A i \in 1..(Len(list) - 1) : StrLess(list[i], list[i + 1])

Usable(fonts) == {Trim(fonts[i]) : i \in DOMAIN fonts} \ {<<>>}

Arial == <<65,114,105,97,108>>

\* C3: for an input with at least one string that is non-empty after trimming,
\* normalize_font_list returns exactly the trimmed non-empty inputs, each once,
\* in ascending order (["Arial", " Arial", "", "Arial "] gives ["Arial"]), and
\* an already normalised list comes back unchanged.
C3_NormalizeExact ==
    /\ (req.cmd = "normalize_font_list" /\ pc = "done" /\ Usable(req.fonts) # {}) =>
          /\ res.kind = "Ok"
          /\ Range(res.val) = Usable(req.fonts)
          /\ Len(res.val) = Cardinality(Usable(req.fonts))
          /\ StrictlySorted(res.val)
          /\ (StrictlySorted(req.fonts) /\ Range(req.fonts) = Usable(req.fonts)
                 => res.val = req.fonts)
    /\ normalize_font_list(<<Arial, <<32>> \o Arial, <<>>, Arial \o <<32>> >>) = <<Arial>>

\* ["a", " A ", "A"], out of order and with a duplicate after trimming, was
\* normalised to ["A", "a"]
C3_Witness ==
    /\ req.cmd = "normalize_font_list"
    /\ pc = "done"
    /\ req.fonts = << <<97>>, <<32, 65, 32>>, <<65>> >>
    /\ res.val = << <<65>>, <<97>> >>


----------------------------------------------------------------------------
(* Text helpers of font discovery.                                         *)

RECURSIVE Concat(_)
Concat(ss) == IF ss = <<>> THEN <<>> ELSE Head(ss) \o Concat(Tail(ss))

\* String::from_utf8_lossy on the bytes the model feeds it: ASCII bytes decode
\* to themselves, EF BB BF to U+FEFF, and a byte that starts no valid sequence
\* becomes U+FFFD
RECURSIVE from_utf8_lossy(_)
from_utf8_lossy(bytes) ==
    IF bytes = <<>> THEN <<>>
    ELSE IF Head(bytes) < 128
         THEN <<Head(bytes)>> \o from_utf8_lossy(Tail(bytes))
    ELSE IF Len(bytes) >= 3 /\ SubSeq(bytes, 1, 3) = <<239, 187, 191>>
         THEN <<65279>> \o from_utf8_lossy(SubSeq(bytes, 4, Len(bytes)))
    ELSE <<65533>> \o from_utf8_lossy(Tail(bytes))

\* str::split(c): the segments between the occurrences of c, at least one
RECURSIVE SplitOn(_, _)
SplitOn(s, c) ==
    IF \A i \in DOMAIN s : s[i] # c THEN <<s>>
    ELSE LET i == CHOOSE j \in DOMAIN s : s[j] = c /\ \A k \in 1..(j - 1) : s[k] # c
         IN  <<SubSeq(s, 1, i - 1)>> \o SplitOn(SubSeq(s, i + 1, Len(s)), c)

\* str::lines(): split at "\n", no empty last line, a trailing "\r" dropped
Lines(s) ==
    LET parts == SplitOn(s, 10)
        kept  == IF parts[Len(parts)] = <<>>
                 THEN SubSeq(parts, 1, Len(parts) - 1) ELSE parts
    IN  [i \in DOMAIN kept |->
            IF kept[i] # <<>> /\ kept[i][Len(kept[i])] = 13
            THEN SubSeq(kept[i], 1, Len(kept[i]) - 1) ELSE kept[i]]

\* str::strip_prefix
HasPrefix(s, p) == Len(s) >= Len(p) /\ SubSeq(s, 1, Len(p)) = p
AfterPrefix(s, p) == SubSeq(s, Len(p) + 1, Len(s))

FullNamePrefix == <<70,117,108,108,32,78,97,109,101,58>>     \* "Full Name:"
FamilyPrefix == <<70,97,109,105,108,121,58>>                 \* "Family:"

----------------------------------------------------------------------------
(* collect_system_fonts, one branch per target_os.                         *)

\* macOS: the values after "Full Name:" and "Family:"
MacLineFonts(line) ==
    LET trimmed == Trim(line)
    IN  IF HasPrefix(trimmed, FullNamePrefix)
        THEN <<Trim(AfterPrefix(trimmed, FullNamePrefix))>>
        ELSE IF HasPrefix(trimmed, FamilyPrefix)
        THEN <<Trim(AfterPrefix(trimmed, FamilyPrefix))>>
        ELSE <<>>

\* mutant: the line is not split on commas
LinuxLineFonts_unsplit(line) ==
    LET parts == SplitOn(line, 58)
    IN  <<Trim(parts[Len(parts)])>>

\* Linux: line.split(':').next_back(), then every comma-separated family
LinuxLineFonts(line) ==
    LET parts    == SplitOn(line, 58)
        families == SplitOn(parts[Len(parts)], 44)
    IN  [i \in DOMAIN families |-> Trim(families[i])]

\* Windows: the byte-order mark removed, the text before the first "("
WindowsLineFonts(line) ==
    LET cleaned == Trim(SplitOn(SelectSeq(line, LAMBDA ch : ch # 65279), 40)[1])
    IN  IF cleaned # <<>> THEN <<cleaned>> ELSE <<>>

ParseFonts(t, raw) ==
    LET lines == Lines(raw)
    IN  Concat([i \in DOMAIN lines |->
                   CASE t = "macos"   -> MacLineFonts(lines[i])
                     [] t = "linux"   -> LinuxLineFonts(lines[i])
                     [] t = "windows" -> WindowsLineFonts(lines[i])])

Utility(t) ==
    CASE t = "macos"   -> "failed to execute system_profiler: "
      [] t = "linux"   -> "failed to execute fc-list: "
      [] t = "windows" -> "failed to execute powershell: "

DesktopTargets == {"macos", "linux", "windows"}
Targets == DesktopTargets \cup {"other"}

\* the child processes one call of collect_system_fonts tries to spawn
FontSpawns(t) == IF t \in DesktopTargets THEN 1 ELSE 0

collect_system_fonts(t, c) ==
    IF t \notin DesktopTargets THEN Ok(fallback_font_list)
    ELSE IF c.kind = "spawn_error"
    THEN Err(Message(Utility(t), FALSE, <<>>, c.os, <<>>))
    ELSE IF ~c.success
    THEN Err(Message("", FALSE, <<>>, "", from_utf8_lossy(c.stderr)))
    ELSE Ok(normalize_font_list(ParseFonts(t, from_utf8_lossy(c.stdout))))

\* mutant: the first result is kept and served to later calls
list_system_fonts_cached(t, c) ==
    IF calls # <<>> THEN calls[1].res
    ELSE LET r == collect_system_fonts(t, c)
         IN  Ok(IF r.kind = "Ok" THEN r.val ELSE fallback_font_list)

list_system_fonts(t, c) ==
    LET r == collect_system_fonts(t, c)
    IN  Ok(IF r.kind = "Ok" THEN r.val ELSE fallback_font_list)

----------------------------------------------------------------------------
(* list_system_fonts as a command (specifications SpecFonts and SpecCalls). *)

\* most pieces the font utility's output is made of
MaxFrags == 3
\* most calls of list_system_fonts in one run of SpecCalls
MaxCalls == 2

\* pieces of a utility's standard output: "A", "B", " ", "\n", ",", ":", "(",
\* the byte-order mark, "Full Name:", "Family:"
Fragments ==
    { <<65>>, <<66>>, <<32>>, <<10>>, <<44>>, <<58>>, <<40>>, <<239, 187, 191>>,
      FullNamePrefix, FamilyPrefix }

\* what the font utility may do: fail to start, exit non-zero, or print
FontQueries ==
    {SpawnError("ENOENT")}
        \cup {Exited(FALSE, <<>>, e) : e \in {<<>>, <<69>>}}
        \cup {Exited(TRUE, Concat(f), <<>>) : f \in SeqUpTo(Fragments, MaxFrags)}

\* a few answers of the utility, for runs with several calls
SampleQueries ==
    { SpawnError("ENOENT"),
      Exited(FALSE, <<65, 10>>, <<69>>),
      Exited(TRUE, <<>>, <<>>),
      Exited(TRUE, <<65, 10>>, <<>>),
      Exited(TRUE, FamilyPrefix \o <<66, 10>>, <<>>) }

\* the files on disk while fonts are listed
FontsFs == [p \in {<<Name_r, Name_f>>} |-> <<1, 2>>]

InitFontsWith(queries) ==
    /\ target \in Targets
    /\ pc = "idle"
    /\ req = NoReq
    /\ res = NoRes
    /\ fsFiles = FontsFs
    /\ fsDirs = {<<>>, <<Name_r>>}
    /\ fsDenied = {}
    /\ child \in queries
    /\ spawns = 0
    /\ calls = <<>>

InitFonts == InitFontsWith(FontQueries)
InitCalls == InitFontsWith(SampleQueries)

\* the front end invokes list_system_fonts; the handler runs to completion
ListSystemFonts ==
    /\ pc = "idle"
    /\ req' = [cmd |-> "list_system_fonts"]
    /\ res' = list_system_fonts(target, child)
    /\ spawns' = spawns + FontSpawns(target)
    /\ UNCHANGED <<target, fsFiles, fsDirs, fsDenied, child>>
    /\ calls' = Append(calls, [child |-> child, res |-> res',
                               fsBefore |-> <<fsFiles, fsDirs>>,
                               fsAfter |-> <<fsFiles', fsDirs'>>])
    /\ pc' = "done"

\* the front end takes the response and may invoke again
Deliver ==
    /\ pc = "done"
    /\ Len(calls) < MaxCalls
    /\ pc' = "idle"
    /\ UNCHANGED <<target, req, res, fsFiles, fsDirs, fsDenied, child, spawns, calls>>

\* between calls the host changes: the utility will answer differently
OsChange ==
    /\ pc = "idle"
    /\ calls # <<>>
    /\ child' \in SampleQueries \ {child}
    /\ UNCHANGED <<target, pc, req, res, fsFiles, fsDirs, fsDenied, spawns, calls>>

NextFonts == ListSystemFonts
SpecFonts == InitFonts /\ [][NextFonts]_vars

NextCalls == ListSystemFonts \/ Deliver \/ OsChange
SpecCalls == InitCalls /\ [][NextCalls]_vars

Returned == req.cmd = "list_system_fonts" /\ pc = "done"

\* a trimmed, non-empty string
IsFontName(s) == s # <<>> /\ Trim(s) = s

\* the query failed, or gave no usable name
QueryUseless ==
    \/ target \notin DesktopTargets
    \/ child.kind = "spawn_error"
    \/ ~child.success
    \/ \A i \in DOMAIN ParseFonts(target, from_utf8_lossy(child.stdout)) :
           Trim(ParseFonts(target, from_utf8_lossy(child.stdout))[i]) = <<>>

\* C1: whatever the OS font query does, list_system_fonts returns a non-empty,
\* ascending, duplicate-free sequence of non-empty trimmed strings.
C1_SortedDedupNonEmpty ==
    Returned =>
        /\ res.kind = "Ok"
        /\ res.val # <<>>
        /\ StrictlySorted(res.val)
        /\ \A i \in DOMAIN res.val : IsFontName(res.val[i])

\* C2: list_system_fonts never returns an error, and after a failed spawn, a
\* non-zero exit or an output without usable names its result is the fallback
\* list: the same 9 entries, sorted.
C2_FallbackSorted ==
    Returned =>
        /\ res.kind = "Ok"
        /\ QueryUseless =>
              /\ res.val = fallback_font_list
              /\ Len(res.val) = 9
              /\ StrictlySorted(res.val)

\* what a call computes from the utility's answer c alone
FreshResult(t, c) ==
    LET r == collect_system_fonts(t, c)
    IN  Ok(IF r.kind = "Ok" THEN r.val ELSE fallback_font_list)

\* no call wrote to the filesystem, and each call's result is the one computed
\* from the answer the utility gave during that call
CallsIndependent ==
    \A i \in DOMAIN calls :
        /\ calls[i].fsAfter = calls[i].fsBefore
        /\ calls[i].res = FreshResult(target, calls[i].child)
        /\ \A j \in DOMAIN calls :
               calls[j].child = calls[i].child => calls[j].res = calls[i].res

\* C8 as stated: every call of list_system_fonts spawns exactly one child
\* process, writes nothing to the filesystem and keeps no state: a call's
\* result depends only on the answer the OS query gives during that call.
C8_OneSpawnPerCall ==
    /\ spawns = Len(calls)
    /\ CallsIndependent

\* C8, amended: on macOS, Linux and Windows builds every call makes exactly one
\* attempt to spawn a child process, on any other target none; no call writes
\* to the filesystem, and a call's result depends only on the answer the OS
\* query gives during that call.
C8_SpawnPerCallOnDesktop ==
    /\ target \in {"macos", "linux", "windows"} => spawns = Len(calls)
    /\ target \notin {"macos", "linux", "windows"} => spawns = 0
    /\ CallsIndependent

\* two calls were made, the utility answering differently, with different results
C8_Witness ==
    /\ Len(calls) = 2
    /\ spawns = 2
    /\ calls[1].child # calls[2].child
    /\ calls[1].res # calls[2].res

LinuxSucceeded ==
    Returned /\ target = "linux" /\ child.kind = "exited" /\ child.success

\* C9 as stated: on Linux, when the utility succeeds, every comma-separated
\* segment of every output line that is non-empty after trimming is in the
\* returned list.
C9_EverySegmentListed ==
    LinuxSucceeded =>
        \A line \in Range(Lines(from_utf8_lossy(child.stdout))) :
            \A seg \in Range(SplitOn(line, 44)) :
                Trim(seg) # <<>> => Trim(seg) \in Range(res.val)

\* the part of a line after its last colon, the whole line when it has none
AfterLastColon(line) ==
    IF \A i \in DOMAIN line : line[i] # 58 THEN line
    ELSE LET i == CHOOSE j \in DOMAIN line :
                      line[j] = 58 /\ \A k \in (j + 1)..Len(line) : line[k] # 58
         IN  SubSeq(line, i + 1, Len(line))

LinuxFamilies ==
    {Trim(seg) : seg \in UNION {Range(SplitOn(AfterLastColon(line), 44)) :
                       line \in Range(Lines(from_utf8_lossy(child.stdout)))}} \ {<<>>}

\* C9, amended: on Linux, when the utility succeeds, only the part of each
\* output line after its last colon (the whole line when it has no colon) is
\* split on commas; each such segment that is non-empty after trimming is in
\* the returned list.
C9_SegmentsAfterLastColon ==
    LinuxSucceeded => LinuxFamilies \subseteq Range(res.val)

\* a line "B,A" was split into its two families
C9_Witness ==
    /\ LinuxSucceeded
    /\ child.stdout = <<66, 44, 65>>
    /\ res.val = << <<65>>, <<66>> >>

----------------------------------------------------------------------------
(* Paths.  A PathBuf is the sequence of its component names from the        *)
(* filesystem root; a path argument is absolute or relative.               *)

AbsPath(comps) == [absolute |-> TRUE, comps |-> comps]
RelPath(comps) == [absolute |-> FALSE, comps |-> comps]

\* the canonical workspace root, "/r"
project_root == <<Name_r>>

resolve_project_path(input) ==
    IF input.absolute THEN input.comps ELSE project_root \o input.comps

IsPrefix(p, q) == Len(p) <= Len(q) /\ SubSeq(q, 1, Len(p)) = p

\* Path::parent of a path with at least one component
Parent(p) == SubSeq(p, 1, Len(p) - 1)

\* std::path::MAIN_SEPARATOR
Separator(t) == IF t = "windows" THEN 92 ELSE 47

RECURSIVE Join(_, _)
Join(comps, sep) ==
    IF comps = <<>> THEN <<>>
    ELSE IF Len(comps) = 1 THEN comps[1]
    ELSE comps[1] \o <<sep>> \o Join(Tail(comps), sep)

\* Path::to_string_lossy / Path::display of an absolute or a relative path
PathString(t, absolute, comps) ==
    (IF absolute THEN <<Separator(t)>> ELSE <<>>) \o Join(comps, Separator(t))

\* str::replace('\\', "/")
ForwardSlashes(s) == [i \in DOMAIN s |-> IF s[i] = 92 THEN 47 ELSE s[i]]

\* Ord for Path: component by component, each compared as a string
RECURSIVE PathLess(_, _)
PathLess(p, q) ==
    IF q = <<>> THEN FALSE
    ELSE IF p = <<>> THEN TRUE
    ELSE IF Head(p) = Head(q) THEN PathLess(Tail(p), Tail(q))
    ELSE StrLess(Head(p), Head(q))

\* Vec<PathBuf>::sort of the paths collected
RECURSIVE SortPaths(_)
SortPaths(S) ==
    IF S = {} THEN <<>>
    ELSE LET m == CHOOSE x \in S : \A y \in S : y = x \/ PathLess(x, y)
         IN  <<m>> \o SortPaths(S \ {m})

\* char::to_ascii_lowercase
AsciiLower(ch) == IF ch >= 65 /\ ch <= 90 THEN ch + 32 ELSE ch

\* str::eq_ignore_ascii_case
EqIgnoreAsciiCase(a, b) ==
    Len(a) = Len(b) /\ \A i \in DOMAIN a : AsciiLower(a[i]) = AsciiLower(b[i])

\* Path::extension of a file name: what follows its last ".", none when it has
\* no "." or only a leading one
HasExtension(name) == \E i \in 2..Len(name) : name[i] = 46
Extension(name) ==
    LET i == CHOOSE j \in 2..Len(name) :
                 name[j] = 46 /\ \A k \in (j + 1)..Len(name) : name[k] # 46
    IN  SubSeq(name, i + 1, Len(name))

Png == <<112, 110, 103>>
IsPng(path) ==
    LET name == path[Len(path)]
    IN  HasExtension(name) /\ EqIgnoreAsciiCase(Extension(name), Png)

----------------------------------------------------------------------------
(* list_png_files (specification SpecPng).                                 *)

Exists(p) == p \in DOMAIN fsFiles \/ p \in fsDirs

\* the entries fs::read_dir yields for a directory
Entries(dir) ==
    {p \in (DOMAIN fsFiles) \cup fsDirs : Len(p) = Len(dir) + 1 /\ IsPrefix(dir, p)}

\* the error of fs::read_dir, "" when it succeeds
ReadDirError(dir) ==
    IF dir \in fsDenied THEN "EACCES" ELSE IF dir \notin fsDirs THEN "ENOTDIR" ELSE ""

\* the walk pushes the PNG files of dir and of its sub-directories, and stops
\* at the first directory that cannot be read
RECURSIVE collect_png_files(_)
collect_png_files(dir) ==
    IF ReadDirError(dir) # ""
    THEN Err(Message("read_dir failed: ", FALSE, <<>>, ReadDirError(dir), <<>>))
    ELSE LET subs == {collect_png_files(d) : d \in Entries(dir) \cap fsDirs}
             here == {p \in Entries(dir) \ fsDirs : IsPng(p)}
         IN  IF \E r \in subs : r.kind = "Err"
             THEN CHOOSE r \in subs : r.kind = "Err"
             ELSE Ok(here \cup UNION {r.val : r \in subs})

\* a listed file as returned: relative to the project root when under it
ListedString(t, file) ==
    IF IsPrefix(project_root, file)
    THEN ForwardSlashes(PathString(t, FALSE,
                            SubSeq(file, Len(project_root) + 1, Len(file))))
    ELSE ForwardSlashes(PathString(t, TRUE, file))

list_png_files(t, path) ==
    LET resolved == resolve_project_path(path)
    IN  IF ~Exists(resolved) THEN Ok(<<>>)
        ELSE LET r == collect_png_files(resolved)
             IN  IF r.kind = "Err" THEN r
                 ELSE LET files == SortPaths(r.val)
                      IN  Ok([i \in DOMAIN files |-> ListedString(t, files[i])])

\* deepest file below the listed directory
MaxDepth == 2

\* names of the files: "a.PNG", "b.txt", "s.png", ".png"; of the
\* sub-directories: "s"
FileNames == { <<97, 46, 80, 78, 71>>, <<98, 46, 116, 120, 116>>,
               <<115, 46, 112, 110, 103>>, <<46, 112, 110, 103>> }
Name_s == <<115>>

RECURSIVE Repeat(_, _)
Repeat(x, n) == IF n = 0 THEN <<>> ELSE <<x>> \o Repeat(x, n - 1)

\* the files a listed directory may hold, relative to it
TreeFiles == {Repeat(Name_s, k) \o <<n>> : k \in 0..(MaxDepth - 1), n \in FileNames}

\* the directories listed: the project root (""), "d" under it, "/x" outside
ListedDirs == {RelPath(<<>>), RelPath(<<Name_d>>), AbsPath(<<Name_x>>)}

Ancestors(p) == {SubSeq(p, 1, k) : k \in 0..(Len(p) - 1)}

InitPng ==
    /\ target \in {"linux", "windows"}
    /\ pc = "idle"
    /\ \E dir \in ListedDirs : req = [cmd |-> "list_png_files", path |-> dir]
    /\ res = NoRes
    /\ \E present \in BOOLEAN, tree \in SUBSET TreeFiles :
          LET base  == resolve_project_path(req.path)
              files == IF present THEN {base \o f : f \in tree} ELSE {}
          IN  /\ Len(base) > Len(project_root) \/ present
              /\ ~present => tree = {}
              /\ fsFiles = [p \in files |-> <<>>]
              /\ fsDirs = {<<>>, project_root}
                             \cup (IF present THEN {base} ELSE {})
                             \cup UNION {Ancestors(f) : f \in files}
              /\ fsDenied \in {{}, {base \o <<Name_s>>}}
    /\ child = NoChild
    /\ spawns = 0
    /\ calls = <<>>

ListPngFiles ==
    /\ pc = "idle"
    /\ req.cmd = "list_png_files"
    /\ res' = list_png_files(target, req.path)
    /\ pc' = "done"
    /\ UNCHANGED <<target, req, fsFiles, fsDirs, fsDenied, child, spawns, calls>>

NextPng == ListPngFiles
SpecPng == InitPng /\ [][NextPng]_vars

\* ascending as strings, equal neighbours allowed
SortedStrings(list) ==
    \A i \in 1..(Len(list) - 1) : ~StrLess(list[i + 1], list[i])

\* the PNG files at any depth under dir, as the strings the claim expects
PngUnder(dir) == {p \in DOMAIN fsFiles : IsPrefix(dir, p) /\ IsPng(p)}

\* no directory under dir refuses to be read
Readable(dir) == \A d \in fsDirs : IsPrefix(dir, d) => d \notin fsDenied

\* C4: on an existing directory list_png_files returns exactly the files at any
\* depth under it whose extension is "png" in any ASCII case, as relative
\* paths with forward slashes, the sequence of path strings sorted; on a
\* directory that does not exist it returns the empty sequence.
C4_ListedSorted ==
    (req.cmd = "list_png_files" /\ pc = "done") =>
        LET dir == resolve_project_path(req.path)
        IN  /\ ~Exists(dir) => res = Ok(<<>>)
            /\ (Exists(dir) /\ Readable(dir)) =>
                  /\ res.kind = "Ok"
                  /\ Range(res.val) = {ListedString(target, p) : p \in PngUnder(dir)}
                  /\ Len(res.val) = Cardinality(PngUnder(dir))
                  /\ \A i \in DOMAIN res.val : \A j \in DOMAIN res.val[i] :
                         res.val[i][j] # 92
                  /\ SortedStrings(res.val)

----------------------------------------------------------------------------
(* base64::engine::general_purpose::STANDARD: the alphabet A-Z a-z 0-9 + /, *)
(* padded encoding, canonical padding required when decoding.              *)

\* the character of a 6-bit value
Base64Char(v) ==
    IF v < 26 THEN 65 + v
    ELSE IF v < 52 THEN 97 + (v - 26)
    ELSE IF v < 62 THEN 48 + (v - 52)
    ELSE IF v = 62 THEN 43 ELSE 47

\* the 6-bit value of a character, -1 for one outside the alphabet
Sextet(c) ==
    IF c >= 65 /\ c <= 90 THEN c - 65
    ELSE IF c >= 97 /\ c <= 122 THEN c - 71
    ELSE IF c >= 48 /\ c <= 57 THEN c + 4
    ELSE IF c = 43 THEN 62
    ELSE IF c = 47 THEN 63 ELSE -1

\* mutant: the final group is written without its "=" padding
RECURSIVE Base64Encode_unpadded(_)
Base64Encode_unpadded(bytes) ==
    IF bytes = <<>> THEN <<>>
    ELSE IF Len(bytes) = 1
    THEN <<Base64Char(bytes[1] \div 4), Base64Char((bytes[1] % 4) * 16)>>
    ELSE IF Len(bytes) = 2
    THEN <<Base64Char(bytes[1] \div 4),
           Base64Char((bytes[1] % 4) * 16 + bytes[2] \div 16),
           Base64Char((bytes[2] % 16) * 4)>>
    ELSE <<Base64Char(bytes[1] \div 4),
           Base64Char((bytes[1] % 4) * 16 + bytes[2] \div 16),
           Base64Char((bytes[2] % 16) * 4 + bytes[3] \div 64),
           Base64Char(bytes[3] % 64)>>
         \o Base64Encode_unpadded(SubSeq(bytes, 4, Len(bytes)))

\* STANDARD.encode
RECURSIVE Base64Encode(_)
Base64Encode(bytes) ==
    IF bytes = <<>> THEN <<>>
    ELSE IF Len(bytes) = 1
    THEN <<Base64Char(bytes[1] \div 4), Base64Char((bytes[1] % 4) * 16), 61, 61>>
    ELSE IF Len(bytes) = 2
    THEN <<Base64Char(bytes[1] \div 4),
           Base64Char((bytes[1] % 4) * 16 + bytes[2] \div 16),
           Base64Char((bytes[2] % 16) * 4), 61>>
    ELSE <<Base64Char(bytes[1] \div 4),
           Base64Char((bytes[1] % 4) * 16 + bytes[2] \div 16),
           Base64Char((bytes[2] % 16) * 4 + bytes[3] \div 64),
           Base64Char(bytes[3] % 64)>>
         \o Base64Encode(SubSeq(bytes, 4, Len(bytes)))

\* the number of "=" a payload ends with
RECURSIVE PaddingLen(_)
PaddingLen(s) ==
    IF s # <<>> /\ s[Len(s)] = 61 THEN 1 + PaddingLen(SubSeq(s, 1, Len(s) - 1)) ELSE 0

\* STANDARD.decode accepts a payload whose length is a multiple of 4, made of
\* alphabet characters and at most two final "=", with no bit set in the part
\* of the last symbol the padding cuts off
Base64Valid(s) ==
    LET pad == PaddingLen(s)
        n   == Len(s) - pad
    IN  /\ Len(s) % 4 = 0
        /\ pad <= 2
        /\ \A i \in 1..n : Sextet(s[i]) >= 0
        /\ pad = 1 => Sextet(s[n]) % 4 = 0
        /\ pad = 2 => Sextet(s[n]) % 16 = 0

\* the bytes of the symbols of a valid payload
RECURSIVE DecodeSymbols(_)
DecodeSymbols(v) ==
    IF Len(v) < 2 THEN <<>>
    ELSE IF Len(v) = 2 THEN <<v[1] * 4 + v[2] \div 16>>
    ELSE IF Len(v) = 3
    THEN <<v[1] * 4 + v[2] \div 16, (v[2] % 16) * 16 + v[3] \div 4>>
    ELSE <<v[1] * 4 + v[2] \div 16, (v[2] % 16) * 16 + v[3] \div 4,
           (v[3] % 4) * 64 + v[4]>>
         \o DecodeSymbols(SubSeq(v, 5, Len(v)))

\* STANDARD.decode of a valid payload
Base64Decode(s) ==
    LET n == Len(s) - PaddingLen(s)
    IN  DecodeSymbols([i \in 1..n |-> Sextet(s[i])])

----------------------------------------------------------------------------
(* The filesystem calls of the file commands.                              *)

\* fs::create_dir_all: the missing directories down to dir are created from
\* the top; it stops at a name that is a regular file or that the OS refuses
CreateDirAll(dir) ==
    LET prefixes == {SubSeq(dir, 1, k) : k \in 0..Len(dir)}
        blocked  == {q \in prefixes : q \notin fsDirs
                                      /\ (q \in DOMAIN fsFiles \/ q \in fsDenied)}
    IN  IF blocked = {}
        THEN [err |-> "", dirs |-> fsDirs \cup prefixes]
        ELSE LET b == CHOOSE q \in blocked : \A o \in blocked : Len(q) <= Len(o)
             IN  [err  |-> IF b \in DOMAIN fsFiles THEN "EEXIST" ELSE "EACCES",
                  dirs |-> fsDirs \cup {q \in prefixes : Len(q) < Len(b)}]

\* the error of fs::write to path, "" when it succeeds, given the directories
WriteError(path, dirs) ==
    IF path \in dirs THEN "EISDIR"
    ELSE IF path \in fsDenied THEN "EACCES"
    ELSE IF Parent(path) \notin dirs THEN "ENOENT" ELSE ""

\* the files after fs::write
Written(path, bytes) ==
    [p \in (DOMAIN fsFiles) \cup {path} |-> IF p = path THEN bytes ELSE fsFiles[p]]

\* the error of fs::read, "" when it succeeds
ReadError(path) ==
    IF path \in fsDenied THEN "EACCES"
    ELSE IF path \in fsDirs THEN "EISDIR"
    ELSE IF path \notin DOMAIN fsFiles THEN "ENOENT" ELSE ""

\* bytes that are valid UTF-8 (of the bytes the model uses, the ASCII ones)
ValidUtf8(bytes) == \A i \in DOMAIN bytes : bytes[i] < 128

\* the outcome of a command: its result and the filesystem it leaves
Outcome(r, files, dirs) == [res |-> r, files |-> files, dirs |-> dirs]

PathError(t, lit, path, os) == Err(Message(lit, TRUE, PathString(t, TRUE, path), os, <<>>))
PlainError(lit, os) == Err(Message(lit, FALSE, <<>>, os, <<>>))

read_text_file(t, path) ==
    LET resolved == resolve_project_path(path)
    IN  IF ReadError(resolved) # ""
        THEN Outcome(PathError(t, "failed to read ", resolved, ReadError(resolved)),
                     fsFiles, fsDirs)
        ELSE IF ~ValidUtf8(fsFiles[resolved])
        THEN Outcome(PathError(t, "failed to read ", resolved,
                               "stream did not contain valid UTF-8"), fsFiles, fsDirs)
        ELSE Outcome(Ok(fsFiles[resolved]), fsFiles, fsDirs)

write_text_file(t, path, content) ==
    LET resolved == resolve_project_path(path)
        made     == CreateDirAll(Parent(resolved))
    IN  IF made.err # ""
        THEN Outcome(PlainError("failed to create parent dirs: ", made.err),
                     fsFiles, made.dirs)
        ELSE IF WriteError(resolved, made.dirs) # ""
        THEN Outcome(PathError(t, "failed to write ", resolved,
                               WriteError(resolved, made.dirs)), fsFiles, made.dirs)
        ELSE Outcome(Ok(<<>>), Written(resolved, content), made.dirs)

read_file_base64(t, path) ==
    LET resolved == resolve_project_path(path)
    IN  IF ReadError(resolved) # ""
        THEN Outcome(PathError(t, "failed to read ", resolved, ReadError(resolved)),
                     fsFiles, fsDirs)
        ELSE Outcome(Ok(Base64Encode(fsFiles[resolved])), fsFiles, fsDirs)

\* mutant: the payload is decoded before the parent directories are made
write_file_base64_decode_first(t, path, data_base64) ==
    LET resolved == resolve_project_path(path)
        made     == CreateDirAll(Parent(resolved))
    IN  IF ~Base64Valid(data_base64)
        THEN Outcome(PlainError("failed to decode base64: ", ""), fsFiles, fsDirs)
        ELSE IF made.err # ""
        THEN Outcome(PlainError("failed to create parent dirs: ", made.err),
                     fsFiles, made.dirs)
        ELSE IF WriteError(resolved, made.dirs) # ""
        THEN Outcome(PathError(t, "failed to write ", resolved,
                               WriteError(resolved, made.dirs)), fsFiles, made.dirs)
        ELSE Outcome(Ok(<<>>), Written(resolved, Base64Decode(data_base64)), made.dirs)

write_file_base64(t, path, data_base64) ==
    LET resolved == resolve_project_path(path)
        made     == CreateDirAll(Parent(resolved))
    IN  IF made.err # ""
        THEN Outcome(PlainError("failed to create parent dirs: ", made.err),
                     fsFiles, made.dirs)
        ELSE IF ~Base64Valid(data_base64)
        THEN Outcome(PlainError("failed to decode base64: ", ""), fsFiles, made.dirs)
        ELSE IF WriteError(resolved, made.dirs) # ""
        THEN Outcome(PathError(t, "failed to write ", resolved,
                               WriteError(resolved, made.dirs)), fsFiles, made.dirs)
        ELSE Outcome(Ok(<<>>), Written(resolved, Base64Decode(data_base64)), made.dirs)

----------------------------------------------------------------------------
(* The file commands (specifications SpecFiles and SpecDecode).            *)

\* longest file content, in bytes
MaxBytes == 3
\* longest base64 payload handed to write_file_base64, in characters
MaxPayload == 4

\* bytes of the file contents: NUL, "A", and 0xFF (never valid in UTF-8)
ContentBytes == {0, 65, 255}
Contents == SeqUpTo(ContentBytes, MaxBytes)

\* the text write_text_file is given: "", "A"
TextContents == {<<>>, <<65>>}

\* path arguments: "f", "g", "d/g", "/r/f" (the same file as "f"), "/x/h"
FilePaths ==
    { RelPath(<<Name_f>>), RelPath(<<Name_g>>), RelPath(<<Name_d, Name_g>>),
      AbsPath(<<Name_r, Name_f>>), AbsPath(<<Name_x, Name_h>>) }

\* payloads over "Q", "R", "=", "!"
Payloads == SeqUpTo({81, 82, 61, 33}, MaxPayload)
\* two payloads, "QQ==" and "!", for runs about the other commands
SamplePayloads == { <<81, 81, 61, 61>>, <<33>> }

\* "/r" holds the file "f"; "d" is missing, a regular file or a directory; the
\* OS may refuse "/x" or "/r/g"
InitFilesWith(contents) ==
    /\ target = "linux"
    /\ pc = "idle"
    /\ req = NoReq
    /\ res = NoRes
    /\ \E content \in contents, d \in {"missing", "file", "dir"} :
          /\ fsFiles = [p \in {<<Name_r, Name_f>>}
                              \cup (IF d = "file" THEN {<<Name_r, Name_d>>} ELSE {})
                          |-> IF p = <<Name_r, Name_f>> THEN content ELSE <<65>>]
          /\ fsDirs = {<<>>, <<Name_r>>}
                         \cup (IF d = "dir" THEN {<<Name_r, Name_d>>} ELSE {})
    /\ fsDenied \in {{}, {<<Name_x>>}, {<<Name_r, Name_g>>}}
    /\ child = NoChild
    /\ spawns = 0
    /\ calls = <<>>

InitFiles == InitFilesWith(Contents)
InitDecode == InitFilesWith({<<65>>})

\* a command's outcome becomes the result and the filesystem
Apply(o) ==
    /\ res' = o.res
    /\ fsFiles' = o.files
    /\ fsDirs' = o.dirs
    /\ pc' = "done"
    /\ UNCHANGED <<target, fsDenied, child, spawns, calls>>

ReadTextFile ==
    /\ pc = "idle"
    /\ \E path \in FilePaths :
          /\ req' = [cmd |-> "read_text_file", path |-> path]
          /\ Apply(read_text_file(target, path))

WriteTextFile ==
    /\ pc = "idle"
    /\ \E path \in FilePaths, content \in TextContents :
          /\ req' = [cmd |-> "write_text_file", path |-> path, content |-> content]
          /\ Apply(write_text_file(target, path, content))

ReadFileBase64 ==
    /\ pc = "idle"
    /\ \E path \in FilePaths :
          /\ req' = [cmd |-> "read_file_base64", path |-> path]
          /\ Apply(read_file_base64(target, path))

\* req keeps the filesystem the command found
WriteFileBase64(payloads) ==
    /\ pc = "idle"
    /\ \E path \in FilePaths, data \in payloads :
          /\ req' = [cmd |-> "write_file_base64", path |-> path, data |-> data,
                     files |-> fsFiles, dirs |-> fsDirs]
          /\ Apply(write_file_base64(target, path, data))

\* the front end hands the payload it got from read_file_base64 to
\* write_file_base64 with another path; req keeps the path and bytes read
WriteBack ==
    /\ pc = "done"
    /\ req.cmd = "read_file_base64"
    /\ res.kind = "Ok"
    /\ \E path \in FilePaths :
          /\ resolve_project_path(path) # resolve_project_path(req.path)
          /\ req' = [cmd |-> "write_file_base64", path |-> path, data |-> res.val,
                     files |-> fsFiles, dirs |-> fsDirs,
                     source |-> resolve_project_path(req.path)]
          /\ res' = write_file_base64(target, path, res.val).res
          /\ fsFiles' = write_file_base64(target, path, res.val).files
          /\ fsDirs' = write_file_base64(target, path, res.val).dirs
          /\ pc' = "written back"
          /\ UNCHANGED <<target, fsDenied, child, spawns, calls>>

NextFiles ==
    \/ ReadTextFile
    \/ WriteTextFile
    \/ ReadFileBase64
    \/ WriteFileBase64(SamplePayloads)
    \/ WriteBack
SpecFiles == InitFiles /\ [][NextFiles]_vars

NextDecode == WriteFileBase64(Payloads)
SpecDecode == InitDecode /\ [][NextDecode]_vars

\* the OS lets the target of the write in req be made: no directory stands at
\* its path, nor a regular file at a parent's, and none of those that must be
\* made is refused
WritePermitted ==
    LET q == resolve_project_path(req.path)
    IN  /\ q \notin req.dirs
        /\ q \notin fsDenied
        /\ \A k \in 0..(Len(q) - 1) :
               /\ SubSeq(q, 1, k) \notin DOMAIN req.files
               /\ SubSeq(q, 1, k) \in req.dirs \/ SubSeq(q, 1, k) \notin fsDenied

\* C5: the payload read_file_base64 returns for a readable file, handed to
\* write_file_base64 with another path, never fails to decode; the write
\* succeeds unless the OS refuses to create the directories or the file, and
\* then the new file holds the original's bytes, the original being unchanged.
C5_RoundTrip ==
    pc = "written back" =>
        /\ res.kind = "Err" =>
              /\ res.msg.lit # "failed to decode base64: "
              /\ res.msg.os \in {"EEXIST", "EACCES", "EISDIR", "ENOENT"}
        /\ WritePermitted => res.kind = "Ok"
        /\ res.kind = "Ok" =>
              fsFiles[resolve_project_path(req.path)] = req.files[req.source]
        /\ fsFiles[req.source] = req.files[req.source]

\* a two-byte file with a byte that is no text was copied: "AP8=" written back
C5_Witness ==
    /\ pc = "written back"
    /\ res.kind = "Ok"
    /\ req.data = <<65, 80, 56, 61>>
    /\ fsFiles[resolve_project_path(req.path)] = <<0, 255>>
    /\ req.path = RelPath(<<Name_d, Name_g>>)

\* C7: every OS/IO failure a file command reports (file read, file write,
\* parent-directory creation) is an error string holding both the offending
\* path and the OS error text.
C7_ErrorNamesPath ==
    (pc # "idle" /\ res.kind = "Err" /\ res.msg.lit # "failed to decode base64: ") =>
        /\ res.msg.hasPath
        /\ res.msg.path # <<>>
        /\ res.msg.os # ""

BadPayload ==
    pc = "done" /\ req.cmd = "write_file_base64" /\ ~Base64Valid(req.data)

\* the parent directory of the target, and the directories leading to it
TargetParents ==
    {SubSeq(resolve_project_path(req.path), 1, k) :
         k \in 0..(Len(resolve_project_path(req.path)) - 1)}

\* C10 as stated: given a payload that is not valid base64, write_file_base64
\* returns a decode error and neither creates nor modifies the target file; it
\* changes nothing but the missing parent directories, made before decoding.
C10_DecodeErrorOnly ==
    BadPayload =>
        /\ res.kind = "Err"
        /\ res.msg.lit = "failed to decode base64: "
        /\ fsFiles = req.files
        /\ req.dirs \subseteq fsDirs
        /\ fsDirs \ req.dirs \subseteq TargetParents
        /\ TargetParents \subseteq fsDirs

\* C10, amended: given a payload that is not valid base64, write_file_base64
\* returns an error and neither creates nor modifies the target file: the
\* decode error when the parent directories exist or could be made, which is
\* done before decoding, and the parent-directory error otherwise; it changes
\* nothing but missing parent directories.
C10_NoWriteOnBadPayload ==
    BadPayload =>
        /\ res.kind = "Err"
        /\ res.msg.lit \in {"failed to decode base64: ", "failed to create parent dirs: "}
        /\ res.msg.lit = "failed to decode base64: " <=> TargetParents \subseteq fsDirs
        /\ fsFiles = req.files
        /\ req.dirs \subseteq fsDirs
        /\ fsDirs \ req.dirs \subseteq TargetParents

\* "QR==" (a bit set under the padding) was refused after "/r/d" was made
C10_Witness ==
    /\ BadPayload
    /\ req.data = <<81, 82, 61, 61>>
    /\ req.path = RelPath(<<Name_d, Name_g>>)
    /\ res.msg.lit = "failed to decode base64: "
    /\ <<Name_r, Name_d>> \in fsDirs \ req.dirs
    /\ <<Name_r, Name_d, Name_g>> \notin DOMAIN fsFiles

----------------------------------------------------------------------------
(* run_pipeline (specification SpecPipe).                                  *)

\* longest captured output of the pipeline script, in bytes
MaxOut == 2

\* mutant: the exit status is not looked at
run_pipeline_unchecked(c) ==
    IF c.kind = "spawn_error"
    THEN Err(Message("failed to execute node: ", FALSE, <<>>, c.os, <<>>))
    ELSE Ok(from_utf8_lossy(c.stdout))

run_pipeline(c) ==
    IF c.kind = "spawn_error"
    THEN Err(Message("failed to execute node: ", FALSE, <<>>, c.os, <<>>))
    ELSE IF ~c.success
    THEN Err(Message("", FALSE, <<>>, "", from_utf8_lossy(c.stderr)))
    ELSE Ok(from_utf8_lossy(c.stdout))

\* captured bytes: "A" and 0xFF
Captured == SeqUpTo({65, 255}, MaxOut)

InitPipe ==
    /\ target = "linux"
    /\ pc = "idle"
    /\ req = NoReq
    /\ res = NoRes
    /\ fsFiles = FontsFs
    /\ fsDirs = {<<>>, <<Name_r>>}
    /\ fsDenied = {}
    /\ child \in {SpawnError("ENOENT")}
                    \cup {Exited(s, out, err) :
                              s \in BOOLEAN, out \in Captured, err \in Captured}
    /\ spawns = 0
    /\ calls = <<>>

RunPipeline ==
    /\ pc = "idle"
    /\ req' = [cmd |-> "run_pipeline"]
    /\ res' = run_pipeline(child)
    /\ spawns' = spawns + 1
    /\ pc' = "done"
    /\ UNCHANGED <<target, fsFiles, fsDirs, fsDenied, child, calls>>

NextPipe == RunPipeline
SpecPipe == InitPipe /\ [][NextPipe]_vars

\* the text of captured bytes: each ASCII byte as it is, each other byte the
\* replacement character
IsTextOf(text, bytes) ==
    /\ Len(text) = Len(bytes)
    /\ \A i \in DOMAIN bytes :
           text[i] = IF bytes[i] < 128 THEN bytes[i] ELSE 65533

\* C6: when the child exits non-zero run_pipeline returns an error whose text
\* is the child's captured standard error; it returns the captured standard
\* output, as the success value, exactly when the child exits with status
\* zero, never on a non-zero exit.
C6_StderrOnFailure ==
    (req.cmd = "run_pipeline" /\ pc = "done") =>
        /\ (child.kind = "exited" /\ ~child.success) =>
              /\ res.kind = "Err"
              /\ IsTextOf(res.msg.text, child.stderr)
        /\ res.kind = "Ok" =>
              /\ child.kind = "exited"
              /\ child.success
              /\ IsTextOf(res.val, child.stdout)
        /\ (child.kind = "exited" /\ child.success) => res.kind = "Ok"

\* the child failed having written to both streams
C6_Witness ==
    /\ req.cmd = "run_pipeline"
    /\ pc = "done"
    /\ child.kind = "exited"
    /\ ~child.success
    /\ child.stdout = <<65>>
    /\ child.stderr = <<65, 255>>
    /\ res.kind = "Err"
    /\ res.msg.text = <<65, 65533>>

=============================================================================
